---------------------------- MODULE Spec2Model ----------------------------
(***************************************************************************)
(* Model of the v1 -> v3 policy/rule conversion of libcalico-go            *)
(* (lib/upgrade/etcd/conversionv1v3).                                      *)
(*                                                                         *)
(* Representation of Go values:                                            *)
(*   string        a tuple of one-character strings, "" is << >>           *)
(*   *T            NilPtr (<< >>) or Ptr(x) (<< x >>)                      *)
(*   []T           [isNil, elems]: the nil slice and the empty non-nil     *)
(*                 slice both have elems = << >> and differ in isNil       *)
(*   net.IPNet     [ip, len] with an IPBits-bit address                    *)
(***************************************************************************)
EXTENDS Integers, Sequences, FiniteSets, TLC

VARIABLES
    pc, v1API, v1KVP, v3API,            \* one sequential migration of one policy
    tpc, targ, tret, ncalls,            \* goroutines calling ruleAPIToBackend
    onceDone, onceMu, warnings,         \* logDeprecationOnce and the log
    fn, arg, ret, prevRet, depth        \* a pure helper applied to an input

policyVars == <<pc, v1API, v1KVP, v3API>>
threadVars == <<tpc, targ, tret, ncalls>>
onceVars == <<onceDone, onceMu, warnings>>
pureVars == <<fn, arg, ret, prevRet, depth>>
vars == <<pc, v1API, v1KVP, v3API, tpc, targ, tret, ncalls,
          onceDone, onceMu, warnings, fn, arg, ret, prevRet, depth>>

-----------------------------------------------------------------------------
(* Go values *)

NilPtr == << >>

Ptr(x) == << x >>

NilSlice == [isNil |-> TRUE, elems |-> << >>]

Slice(s) == [isNil |-> FALSE, elems |-> s]

\* All tuples over S of length 0..n.
RECURSIVE SeqsUpTo(_, _)
SeqsUpTo(S, n) ==
    IF n = 0 THEN {<< >>}
    ELSE LET shorter == SeqsUpTo(S, n - 1)
         IN  shorter \cup {Append(s, x) : s \in {t \in shorter : Len(t) = n - 1}, x \in S}

Range(s) == {s[i] : i \in 1..Len(s)}

-----------------------------------------------------------------------------
(* Networks *)

\* Width of an address in bits.
IPBits == 3

\* Longest []*net.IPNet the helper is applied to.
MaxNets == 2

RECURSIVE Pow2(_)
Pow2(n) == IF n = 0 THEN 1 ELSE 2 * Pow2(n - 1)

IPNets == [ip : 0..(Pow2(IPBits) - 1), len : 0..IPBits]

\* The bits of n.ip beyond the prefix length.
HostBits(n) == n.ip % Pow2(IPBits - n.len)

StrictNets == {n \in IPNets : HostBits(n) = 0}

\* (*net.IPNet).Network(): the address masked to the prefix length.
Network(n) ==
    [ip |-> (n.ip \div Pow2(IPBits - n.len)) * Pow2(IPBits - n.len), len |-> n.len]

normalizeIPNet_noMask(n) == n

normalizeIPNet(n) ==
    IF n = NilPtr THEN NilPtr ELSE Ptr(Network(n[1]))

normalizeIPNets(nets) ==
    IF nets.isNil THEN NilSlice
    ELSE Slice([i \in 1..Len(nets.elems) |-> normalizeIPNet(nets.elems[i])])

NetPtrs == {NilPtr} \cup {Ptr(n) : n \in IPNets}

\* The elements of the slices tried: nil, and the networks of two prefix lengths.
SliceNetPtrs ==
    {NilPtr} \cup {Ptr(n) : n \in {m \in IPNets : m.len \in {1, IPBits - 1}}}

NetSlices == {NilSlice} \cup {Slice(s) : s \in SeqsUpTo(SliceNetPtrs, MaxNets)}

-----------------------------------------------------------------------------
(* A pure helper applied to an input, and then to its own result *)

QuietPolicy ==
    /\ pc = "idle" /\ v1API = NilPtr /\ v1KVP = NilPtr /\ v3API = NilPtr

QuietThreads ==
    /\ tpc = << >> /\ targ = << >> /\ tret = << >> /\ ncalls = 0

QuietOnce ==
    /\ onceDone = 0 /\ onceMu = 0 /\ warnings = 0

QuietPure ==
    /\ fn = "none" /\ arg = NilPtr /\ ret = NilPtr /\ prevRet = NilPtr /\ depth = 0

\* The input of the latest application.
LastIn == IF depth = 1 THEN arg ELSE prevRet

InitCIDR ==
    /\ QuietPolicy /\ QuietThreads /\ QuietOnce
    /\ \/ fn = "normalizeIPNet" /\ arg \in NetPtrs
       \/ fn = "normalizeIPNets" /\ arg \in NetSlices
    /\ ret = NilPtr /\ prevRet = NilPtr /\ depth = 0

CallNormalizeIPNet ==
    /\ fn = "normalizeIPNet" /\ depth < 2
    /\ ret' = normalizeIPNet(IF depth = 0 THEN arg ELSE ret)
    /\ prevRet' = ret
    /\ depth' = depth + 1
    /\ UNCHANGED <<fn, arg, policyVars, threadVars, onceVars>>

CallNormalizeIPNets ==
    /\ fn = "normalizeIPNets" /\ depth < 2
    /\ ret' = normalizeIPNets(IF depth = 0 THEN arg ELSE ret)
    /\ prevRet' = ret
    /\ depth' = depth + 1
    /\ UNCHANGED <<fn, arg, policyVars, threadVars, onceVars>>

NextCIDR == CallNormalizeIPNet \/ CallNormalizeIPNets

SpecCIDR == InitCIDR /\ [][NextCIDR]_vars

\* y is x with its host bits cleared: same prefix length, same network bits.
IsNormalOf(y, x) ==
    IF x = NilPtr THEN y = NilPtr
    ELSE /\ y # NilPtr
         /\ y[1].len = x[1].len
         /\ HostBits(y[1]) = 0
         /\ y[1].ip \div Pow2(IPBits - y[1].len) = x[1].ip \div Pow2(IPBits - x[1].len)

\* C6: CIDR normalization is total and idempotent: normalize(X) keeps the
\* prefix length of X and has zero host bits, normalize(normalize(X)) =
\* normalize(X), nil maps to nil; normalizeAll maps nil to nil and a non-nil
\* sequence to one of the same length, normalized element by element.
C6_NormalizeTotalIdempotent ==
    /\ (fn = "normalizeIPNet" /\ depth >= 1) =>
          /\ IsNormalOf(ret, LastIn)
          /\ depth = 2 => ret = prevRet
    /\ (fn = "normalizeIPNets" /\ depth >= 1) =>
          /\ ret.isNil = LastIn.isNil
          /\ Len(ret.elems) = Len(LastIn.elems)
          /\ \A i \in 1..Len(ret.elems) : IsNormalOf(ret.elems[i], LastIn.elems[i])
          /\ depth = 2 => ret = prevRet

\* A network with host bits set was normalized twice, and so was a non-nil
\* sequence holding one.
C6_Witness ==
    /\ depth = 2
    /\ fn = "normalizeIPNets"
    /\ ~arg.isNil /\ Len(arg.elems) = 2
    /\ arg.elems[1] # NilPtr /\ HostBits(arg.elems[1][1]) # 0
    /\ arg.elems[2] = NilPtr

-----------------------------------------------------------------------------
(* Strings *)

UpperChars ==
    <<"A", "B", "C", "D", "E", "F", "G", "H", "I", "J", "K", "L", "M",
      "N", "O", "P", "Q", "R", "S", "T", "U", "V", "W", "X", "Y", "Z">>

LowerChars ==
    <<"a", "b", "c", "d", "e", "f", "g", "h", "i", "j", "k", "l", "m",
      "n", "o", "p", "q", "r", "s", "t", "u", "v", "w", "x", "y", "z">>

DigitChars == <<"0", "1", "2", "3", "4", "5", "6", "7", "8", "9">>

ToLowerChar(c) ==
    IF \E i \in 1..Len(UpperChars) : UpperChars[i] = c
    THEN LowerChars[CHOOSE i \in 1..Len(UpperChars) : UpperChars[i] = c]
    ELSE c

ToUpperChar(c) ==
    IF \E i \in 1..Len(LowerChars) : LowerChars[i] = c
    THEN UpperChars[CHOOSE i \in 1..Len(LowerChars) : LowerChars[i] = c]
    ELSE c

\* strings.ToLower
ToLower(s) == [i \in 1..Len(s) |-> ToLowerChar(s[i])]

\* Every spelling of w in upper and lower case letters.
CaseVariants(w) ==
    {[i \in 1..Len(w) |-> IF i \in U THEN ToUpperChar(w[i]) ELSE ToLowerChar(w[i])] :
        U \in SUBSET (1..Len(w))}

-----------------------------------------------------------------------------
(* Rule actions *)

Allow == <<"A", "l", "l", "o", "w">>

Deny == <<"D", "e", "n", "y">>

Log == <<"L", "o", "g">>

Pass == <<"P", "a", "s", "s">>

NextTier == <<"n", "e", "x", "t", "-", "t", "i", "e", "r">>

\* []apiv3.Action{apiv3.Allow, apiv3.Deny, apiv3.Log, apiv3.Pass}
V3Actions == <<Allow, Deny, Log, Pass>>

ruleActionAPIToBackend(action) ==
    IF action = Pass THEN NextTier ELSE action

\* The first action of V3Actions that inAction spells, whatever the case.
RECURSIVE MatchV3Action(_, _)
MatchV3Action(inAction, i) ==
    IF i > Len(V3Actions) THEN inAction
    ELSE IF ToLower(inAction) = ToLower(V3Actions[i]) THEN V3Actions[i]
    ELSE MatchV3Action(inAction, i + 1)

ruleActionToV3API_exactCase(inAction) ==
    IF inAction = << >> THEN Allow
    ELSE IF inAction = NextTier THEN Pass
    ELSE IF \E i \in 1..Len(V3Actions) : V3Actions[i] = inAction THEN inAction
    ELSE inAction

ruleActionToV3API(inAction) ==
    IF inAction = << >> THEN Allow
    ELSE IF inAction = NextTier THEN Pass
    ELSE MatchV3Action(inAction, 1)

\* The action strings tried: every spelling of the four actions, the backend
\* tokens, and strings that are near misses of them.
ActionStrings ==
    UNION {CaseVariants(V3Actions[i]) : i \in 1..Len(V3Actions)}
    \cup {<< >>, NextTier, <<"N">> \o Tail(NextTier), Append(Allow, "s"),
          Tail(Deny), <<"x">>, <<"l", "o">>, Append(Pass, " ")}

InitAction ==
    /\ QuietPolicy /\ QuietThreads /\ QuietOnce
    /\ fn \in {"legacyAction", "backendAction"}
    /\ arg \in ActionStrings
    /\ ret = NilPtr /\ prevRet = NilPtr /\ depth = 0

\* ruleAPIToBackend's Action field, from a legacy action.
CallRuleActionAPIToBackend ==
    /\ fn = "legacyAction" /\ depth = 0
    /\ ret' = ruleActionAPIToBackend(arg)
    /\ prevRet' = ret
    /\ depth' = 1
    /\ UNCHANGED <<fn, arg, policyVars, threadVars, onceVars>>

\* ruleBackendToAPI's Action field, from the backend action: the one just
\* converted, or a stored one.
CallRuleActionToV3API ==
    /\ \/ fn = "legacyAction" /\ depth = 1
       \/ fn = "backendAction" /\ depth = 0
    /\ ret' = ruleActionToV3API(IF depth = 0 THEN arg ELSE ret)
    /\ prevRet' = ret
    /\ depth' = 2
    /\ UNCHANGED <<fn, arg, policyVars, threadVars, onceVars>>

NextAction == CallRuleActionAPIToBackend \/ CallRuleActionToV3API

SpecAction == InitAction /\ [][NextAction]_vars

\* a and b are spelled alike but for the case of their letters.
EqualFold(a, b) ==
    /\ Len(a) = Len(b)
    /\ \A i \in 1..Len(a) : ToLowerChar(a[i]) = ToLowerChar(b[i])

\* What the current API gets for the backend action b.
ExpectedV3Action(b) ==
    IF b = << >> THEN Allow
    ELSE IF b = NextTier THEN Pass
    ELSE IF EqualFold(b, Allow) THEN Allow
    ELSE IF EqualFold(b, Deny) THEN Deny
    ELSE IF EqualFold(b, Log) THEN Log
    ELSE IF EqualFold(b, Pass) THEN Pass
    ELSE b

\* The backend action the current-API action was made from.
BackendAction == IF fn = "legacyAction" THEN prevRet ELSE arg

\* C9: actionToBackend maps exactly "Pass" to "next-tier" and every other
\* string to itself; actionToCurrentAPI maps "" to Allow, "next-tier" to
\* Pass, a string equal to one of Allow/Deny/Log/Pass up to case to that
\* action, any other string to itself; so legacy "Pass" ends as Pass.
C9_ActionMapping ==
    /\ (fn = "legacyAction" /\ depth = 1) =>
          ret = (IF arg = Pass THEN NextTier ELSE arg)
    /\ (fn = "legacyAction" /\ depth = 2) =>
          prevRet = (IF arg = Pass THEN NextTier ELSE arg)
    /\ depth = 2 => ret = ExpectedV3Action(BackendAction)
    /\ (fn = "legacyAction" /\ depth = 2 /\ arg = Pass) => ret = Pass

\* Legacy "Pass" went through both legs.
C9_Witness ==
    /\ fn = "legacyAction" /\ depth = 2 /\ arg = Pass
    /\ prevRet = NextTier /\ ret = Pass

-----------------------------------------------------------------------------
(* Resource names *)

\* Longest legacy name tried.
MaxNameLen == 4

\* The characters legacy names are made of here: letters of both cases, a
\* digit, and the separators.
NameChars == {"a", "A", "b", "0", ".", "-", "_"}

Names == SeqsUpTo(NameChars, MaxNameLen)

IsAlnum(c) ==
    \/ \E i \in 1..Len(LowerChars) : LowerChars[i] = c
    \/ \E i \in 1..Len(UpperChars) : UpperChars[i] = c
    \/ \E i \in 1..Len(DigitChars) : DigitChars[i] = c

\* The last index of the run of non-alphanumeric characters that starts at i.
RECURSIVE RunEnd(_, _)
RunEnd(s, i) ==
    IF i < Len(s) /\ ~IsAlnum(s[i + 1]) THEN RunEnd(s, i + 1) ELSE i

\* s from index i on, each run of special characters that holds more than
\* hyphens collapsed to one ".".
RECURSIVE CollapseFrom(_, _)
CollapseFrom(s, i) ==
    IF i > Len(s) THEN << >>
    ELSE IF IsAlnum(s[i]) THEN <<s[i]>> \o CollapseFrom(s, i + 1)
    ELSE LET j == RunEnd(s, i)
             run == SubSeq(s, i, j)
         IN  (IF \E k \in 1..Len(run) : run[k] # "-" THEN <<".">> ELSE run)
                 \o CollapseFrom(s, j + 1)

\* s from index i on, each run of dots and hyphens that holds a dot
\* collapsed to one ".".
RECURSIVE CollapseDotsFrom(_, _)
CollapseDotsFrom(s, i) ==
    IF i > Len(s) THEN << >>
    ELSE IF s[i] \notin {".", "-"} THEN <<s[i]>> \o CollapseDotsFrom(s, i + 1)
    ELSE LET RECURSIVE End(_)
             End(k) == IF k < Len(s) /\ s[k + 1] \in {".", "-"} THEN End(k + 1) ELSE k
             j == End(i)
             run == SubSeq(s, i, j)
         IN  (IF \E k \in 1..Len(run) : run[k] = "." THEN <<".">> ELSE run)
                 \o CollapseDotsFrom(s, j + 1)

\* The two rewrites in the wrong order: dot runs are collapsed first, and the
\* other special characters become hyphens only afterwards.
convertName_dotsFirst(name) ==
    LET collapsed == CollapseDotsFrom(ToLower(name), 1)
    IN  [i \in 1..Len(collapsed) |->
            IF IsAlnum(collapsed[i]) \/ collapsed[i] \in {".", "-"}
            THEN collapsed[i] ELSE "-"]

\* NameNormalizer.normalize
convertName(name) == CollapseFrom(ToLower(name), 1)

InitName ==
    /\ QuietPolicy /\ QuietThreads /\ QuietOnce
    /\ fn = "convertName"
    /\ arg \in Names
    /\ ret = NilPtr /\ prevRet = NilPtr /\ depth = 0

CallConvertName ==
    /\ fn = "convertName" /\ depth < 2
    /\ ret' = convertName(IF depth = 0 THEN arg ELSE ret)
    /\ prevRet' = ret
    /\ depth' = depth + 1
    /\ UNCHANGED <<fn, arg, policyVars, threadVars, onceVars>>

NextName == CallConvertName

SpecName == InitName /\ [][NextName]_vars

\* C10: name normalization is total and idempotent: normalize(N) is a name
\* for every legacy name N, and normalize(normalize(N)) = normalize(N).
C10_NameNormalizeIdempotent ==
    /\ depth >= 1 => /\ Len(ret) <= Len(LastIn)
                     /\ \A i \in 1..Len(ret) : ret[i] \in NameChars
    /\ depth = 2 => ret = prevRet

\* A name that normalization changes (upper case, and a run of special
\* characters) was normalized twice.
C10_Witness ==
    /\ depth = 2
    /\ arg = <<"A", ".", "-", "b">>
    /\ prevRet = <<"a", ".", "b">>

-----------------------------------------------------------------------------
(* Rules: apiv1.Rule, model.Rule, apiv3.Rule *)

\* strconv's decimal digits of n.
RECURSIVE Digits(_)
Digits(n) ==
    IF n < 10 THEN <<DigitChars[n + 1]>>
    ELSE Digits(n \div 10) \o <<DigitChars[(n % 10) + 1]>>

\* (net.IPNet).String(): the address as stored and the prefix length.
NetString(n) == Digits(n.ip) \o <<"/">> \o Digits(n.len)

\* model.Rule's AllSrcNets, AllDstNets, AllNotSrcNets, AllNotDstNets: the
\* plural field with the deprecated singular one appended.
combineNets(n, nets) ==
    IF n = NilPtr THEN nets
    ELSE IF Len(nets.elems) = 0 THEN Slice(<<n>>)
    ELSE Slice(Append(nets.elems, n))

\* var strs []string; for _, net := range nets { strs = append(strs, net.String()) }
netsToStrings(nets) ==
    IF Len(nets.elems) = 0 THEN NilSlice
    ELSE Slice([i \in 1..Len(nets.elems) |-> NetString(nets.elems[i][1])])

\* fmt.Sprintf("(%s) && %s == ''", selector, tag) when the tag is set.
mergeTag(selector, tag) ==
    IF tag = << >> THEN selector
    ELSE <<"(">> \o selector \o <<")", " ", "&", "&", " ">> \o tag
             \o <<" ", "=", "=", " ", "'", "'">>

\* numorstring.ProtocolV3FromProtocolV1
ProtocolV3FromProtocolV1(p) ==
    [Type |-> p.Type, NumVal |-> p.NumVal, StrVal |-> p.StrVal]

hasDeprecatedNet_orTag(ar) ==
    \/ ar.Source.Net # NilPtr \/ ar.Source.NotNet # NilPtr
    \/ ar.Destination.Net # NilPtr \/ ar.Destination.NotNet # NilPtr
    \/ ar.Source.Tag # << >> \/ ar.Source.NotTag # << >>
    \/ ar.Destination.Tag # << >> \/ ar.Destination.NotTag # << >>

\* The condition that guards logDeprecationOnce.Do.
hasDeprecatedNet(ar) ==
    \/ ar.Source.Net # NilPtr \/ ar.Source.NotNet # NilPtr
    \/ ar.Destination.Net # NilPtr \/ ar.Destination.NotNet # NilPtr

\* icmpCode, icmpType, notICMPCode, notICMPType of ruleAPIToBackend.
icmpFieldOf(icmp, field) ==
    IF icmp # NilPtr THEN icmp[1][field] ELSE NilPtr

ruleAPIToBackend_normalizeSource(ar) ==
    [Action         |-> ruleActionAPIToBackend(ar.Action),
     IPVersion      |-> ar.IPVersion,
     Protocol       |-> ar.Protocol,
     ICMPCode       |-> icmpFieldOf(ar.ICMP, "Code"),
     ICMPType       |-> icmpFieldOf(ar.ICMP, "Type"),
     NotProtocol    |-> ar.NotProtocol,
     NotICMPCode    |-> icmpFieldOf(ar.NotICMP, "Code"),
     NotICMPType    |-> icmpFieldOf(ar.NotICMP, "Type"),
     SrcTag         |-> ar.Source.Tag,
     SrcNet         |-> normalizeIPNet(ar.Source.Net),
     SrcNets        |-> normalizeIPNets(ar.Source.Nets),
     SrcSelector    |-> ar.Source.Selector,
     SrcPorts       |-> ar.Source.Ports,
     DstTag         |-> ar.Destination.Tag,
     DstNet         |-> normalizeIPNet(ar.Destination.Net),
     DstNets        |-> normalizeIPNets(ar.Destination.Nets),
     DstSelector    |-> ar.Destination.Selector,
     DstPorts       |-> ar.Destination.Ports,
     NotSrcTag      |-> ar.Source.NotTag,
     NotSrcNet      |-> normalizeIPNet(ar.Source.NotNet),
     NotSrcNets     |-> normalizeIPNets(ar.Source.NotNets),
     NotSrcSelector |-> ar.Source.NotSelector,
     NotSrcPorts    |-> ar.Source.NotPorts,
     NotDstTag      |-> ar.Destination.NotTag,
     NotDstNet      |-> normalizeIPNet(ar.Destination.NotNet),
     NotDstNets     |-> normalizeIPNets(ar.Destination.NotNets),
     NotDstSelector |-> ar.Destination.NotSelector,
     NotDstPorts    |-> ar.Destination.NotPorts]

\* The model.Rule that ruleAPIToBackend returns.
ruleAPIToBackend(ar) ==
    [Action         |-> ruleActionAPIToBackend(ar.Action),
     IPVersion      |-> ar.IPVersion,
     Protocol       |-> ar.Protocol,
     ICMPCode       |-> icmpFieldOf(ar.ICMP, "Code"),
     ICMPType       |-> icmpFieldOf(ar.ICMP, "Type"),
     NotProtocol    |-> ar.NotProtocol,
     NotICMPCode    |-> icmpFieldOf(ar.NotICMP, "Code"),
     NotICMPType    |-> icmpFieldOf(ar.NotICMP, "Type"),
     SrcTag         |-> ar.Source.Tag,
     SrcNet         |-> ar.Source.Net,
     SrcNets        |-> ar.Source.Nets,
     SrcSelector    |-> ar.Source.Selector,
     SrcPorts       |-> ar.Source.Ports,
     DstTag         |-> ar.Destination.Tag,
     DstNet         |-> normalizeIPNet(ar.Destination.Net),
     DstNets        |-> normalizeIPNets(ar.Destination.Nets),
     DstSelector    |-> ar.Destination.Selector,
     DstPorts       |-> ar.Destination.Ports,
     NotSrcTag      |-> ar.Source.NotTag,
     NotSrcNet      |-> ar.Source.NotNet,
     NotSrcNets     |-> ar.Source.NotNets,
     NotSrcSelector |-> ar.Source.NotSelector,
     NotSrcPorts    |-> ar.Source.NotPorts,
     NotDstTag      |-> ar.Destination.NotTag,
     NotDstNet      |-> normalizeIPNet(ar.Destination.NotNet),
     NotDstNets     |-> normalizeIPNets(ar.Destination.NotNets),
     NotDstSelector |-> ar.Destination.NotSelector,
     NotDstPorts    |-> ar.Destination.NotPorts]

rulesAPIToBackend_keepNil(ars) ==
    IF ars.isNil THEN NilSlice
    ELSE Slice([i \in 1..Len(ars.elems) |-> ruleAPIToBackend(ars.elems[i])])

rulesAPIToBackend(ars) ==
    IF ars.isNil THEN Slice(<< >>)
    ELSE Slice([i \in 1..Len(ars.elems) |-> ruleAPIToBackend(ars.elems[i])])

icmpFields_always(code, type) == Ptr([Code |-> code, Type |-> type])

\* icmp, notICMP of ruleBackendToAPI.
icmpFields(code, type) ==
    IF code # NilPtr \/ type # NilPtr THEN Ptr([Code |-> code, Type |-> type])
    ELSE NilPtr

\* ruleBackendToAPI dereferences br.Protocol without a nil check.
ruleBackendToAPIPanics(br) == br.Protocol = NilPtr

ruleBackendToAPI_srcTagEverywhere(br) ==
    [Action      |-> ruleActionToV3API(br.Action),
     IPVersion   |-> br.IPVersion,
     Protocol    |-> Ptr(ProtocolV3FromProtocolV1(br.Protocol[1])),
     ICMP        |-> icmpFields(br.ICMPCode, br.ICMPType),
     NotProtocol |-> br.NotProtocol,
     NotICMP     |-> icmpFields(br.NotICMPCode, br.NotICMPType),
     Source      |->
        [Nets        |-> netsToStrings(combineNets(br.SrcNet, br.SrcNets)),
         Selector    |-> mergeTag(br.SrcSelector, br.SrcTag),
         Ports       |-> br.SrcPorts,
         NotNets     |-> netsToStrings(combineNets(br.NotSrcNet, br.NotSrcNets)),
         NotSelector |-> mergeTag(br.NotSrcSelector, br.NotSrcTag),
         NotPorts    |-> br.NotSrcPorts],
     Destination |->
        [Nets        |-> netsToStrings(combineNets(br.DstNet, br.DstNets)),
         Selector    |-> mergeTag(br.DstSelector, br.SrcTag),
         Ports       |-> br.DstPorts,
         NotNets     |-> netsToStrings(combineNets(br.NotDstNet, br.NotDstNets)),
         NotSelector |-> mergeTag(br.NotDstSelector, br.NotDstTag),
         NotPorts    |-> br.NotDstPorts]]

\* The apiv3.Rule that ruleBackendToAPI returns when br.Protocol is set.
ruleBackendToAPI(br) ==
    [Action      |-> ruleActionToV3API(br.Action),
     IPVersion   |-> br.IPVersion,
     Protocol    |-> Ptr(ProtocolV3FromProtocolV1(br.Protocol[1])),
     ICMP        |-> icmpFields(br.ICMPCode, br.ICMPType),
     NotProtocol |-> br.NotProtocol,
     NotICMP     |-> icmpFields(br.NotICMPCode, br.NotICMPType),
     Source      |->
        [Nets        |-> netsToStrings(combineNets(br.SrcNet, br.SrcNets)),
         Selector    |-> mergeTag(br.SrcSelector, br.SrcTag),
         Ports       |-> br.SrcPorts,
         NotNets     |-> netsToStrings(combineNets(br.NotSrcNet, br.NotSrcNets)),
         NotSelector |-> mergeTag(br.NotSrcSelector, br.NotSrcTag),
         NotPorts    |-> br.NotSrcPorts],
     Destination |->
        [Nets        |-> netsToStrings(combineNets(br.DstNet, br.DstNets)),
         Selector    |-> mergeTag(br.DstSelector, br.DstTag),
         Ports       |-> br.DstPorts,
         NotNets     |-> netsToStrings(combineNets(br.NotDstNet, br.NotDstNets)),
         NotSelector |-> mergeTag(br.NotDstSelector, br.NotDstTag),
         NotPorts    |-> br.NotDstPorts]]

\* rulesV1BackendToV3API panics when one of its rules does.
rulesV1BackendToV3APIPanics(brs) ==
    \E i \in 1..Len(brs.elems) : ruleBackendToAPIPanics(brs.elems[i])

rulesV1BackendToV3API_reversed(brs) ==
    IF brs.isNil THEN NilSlice
    ELSE Slice([i \in 1..Len(brs.elems) |->
                  ruleBackendToAPI(brs.elems[Len(brs.elems) + 1 - i])])

rulesV1BackendToV3API(brs) ==
    IF brs.isNil THEN NilSlice
    ELSE Slice([i \in 1..Len(brs.elems) |-> ruleBackendToAPI(brs.elems[i])])

-----------------------------------------------------------------------------
(* Policies: apiv1.Policy, model.KVPair, apiv3.GlobalNetworkPolicy *)

typesAPIToBackend(types) ==
    IF types.isNil THEN NilSlice
    ELSE Slice([i \in 1..Len(types.elems) |-> ToLower(types.elems[i])])

policyAPIToBackend_normalizedKey(ap) ==
    [Key   |-> [kind |-> "PolicyKey", Name |-> convertName(ap.Name)],
     Value |-> [kind           |-> "Policy",
                Order          |-> ap.Order,
                InboundRules   |-> rulesAPIToBackend(ap.IngressRules),
                OutboundRules  |-> rulesAPIToBackend(ap.EgressRules),
                Selector       |-> ap.Selector,
                DoNotTrack     |-> ap.DoNotTrack,
                PreDNAT        |-> ap.PreDNAT,
                ApplyOnForward |-> ap.ApplyOnForward,
                Types          |-> typesAPIToBackend(ap.Types)]]

policyAPIToBackend_inferForward(ap) ==
    [Key   |-> [kind |-> "PolicyKey", Name |-> ap.Name],
     Value |-> [kind           |-> "Policy",
                Order          |-> ap.Order,
                InboundRules   |-> rulesAPIToBackend(ap.IngressRules),
                OutboundRules  |-> rulesAPIToBackend(ap.EgressRules),
                Selector       |-> ap.Selector,
                DoNotTrack     |-> ap.DoNotTrack,
                PreDNAT        |-> ap.PreDNAT,
                ApplyOnForward |-> ap.ApplyOnForward \/ (ap.DoNotTrack /\ ap.PreDNAT),
                Types          |-> typesAPIToBackend(ap.Types)]]

\* PolicyConverter.apiToBackend: the key carries the legacy name as it is,
\* the flags are copied.
policyAPIToBackend(ap) ==
    [Key   |-> [kind |-> "PolicyKey", Name |-> ap.Name],
     Value |-> [kind           |-> "Policy",
                Order          |-> ap.Order,
                InboundRules   |-> rulesAPIToBackend(ap.IngressRules),
                OutboundRules  |-> rulesAPIToBackend(ap.EgressRules),
                Selector       |-> ap.Selector,
                DoNotTrack     |-> ap.DoNotTrack,
                PreDNAT        |-> ap.PreDNAT,
                ApplyOnForward |-> ap.ApplyOnForward,
                Types          |-> typesAPIToBackend(ap.Types)]]

IngressType == <<"I", "n", "g", "r", "e", "s", "s">>

EgressType == <<"E", "g", "r", "e", "s", "s">>

policyTypeToV3(t) ==
    IF ToLower(t) = ToLower(IngressType) THEN IngressType
    ELSE IF ToLower(t) = ToLower(EgressType) THEN EgressType
    ELSE t

typesBackendToV3(types) ==
    IF types.isNil THEN NilSlice
    ELSE Slice([i \in 1..Len(types.elems) |-> policyTypeToV3(types.elems[i])])

applyOnForward_copied(bp) == bp.ApplyOnForward

\* Forwarding-flag inference of PolicyConverter.backendToCurrentAPI.
applyOnForward(bp) ==
    bp.ApplyOnForward \/ (bp.DoNotTrack /\ bp.PreDNAT)

\* The KeyValue is not a policy key with a policy value.
typeMismatch(kvp) ==
    kvp.Key.kind # "PolicyKey" \/ kvp.Value.kind # "Policy"

\* PolicyConverter.backendToCurrentAPI on a well-typed KeyValue whose rules
\* all carry a protocol.
policyBackendToV3(kvp) ==
    [Name |-> convertName(kvp.Key.Name),
     Spec |-> [Order          |-> kvp.Value.Order,
               Ingress        |-> rulesV1BackendToV3API(kvp.Value.InboundRules),
               Egress         |-> rulesV1BackendToV3API(kvp.Value.OutboundRules),
               Selector       |-> kvp.Value.Selector,
               DoNotTrack     |-> kvp.Value.DoNotTrack,
               PreDNAT        |-> kvp.Value.PreDNAT,
               ApplyOnForward |-> applyOnForward(kvp.Value),
               Types          |-> typesBackendToV3(kvp.Value.Types)]]

\* What a conversion hands back: a value, an error, or a panic that unwinds
\* through it.
NoResult == [status |-> "none", val |-> NilPtr]

Ok(x) == [status |-> "ok", val |-> Ptr(x)]

Stored(x) == [status |-> "stored", val |-> Ptr(x)]

Err == [status |-> "error", val |-> NilPtr]

Panic == [status |-> "panic", val |-> NilPtr]

-----------------------------------------------------------------------------
(* The inputs tried *)

Tcp == [Type |-> "String", NumVal |-> 0, StrVal |-> <<"t", "c", "p">>]

Udp == [Type |-> "String", NumVal |-> 0, StrVal |-> <<"u", "d", "p">>]

ProtoNum == [Type |-> "Int", NumVal |-> 6, StrVal |-> << >>]

BaseEntity ==
    [Tag |-> << >>, Net |-> NilPtr, Nets |-> NilSlice, Selector |-> << >>,
     Ports |-> NilSlice,
     NotTag |-> << >>, NotNet |-> NilPtr, NotNets |-> NilSlice, NotSelector |-> << >>,
     NotPorts |-> NilSlice]

BaseRule ==
    [Action |-> ToLower(Allow), IPVersion |-> Ptr(4), Protocol |-> Ptr(Tcp),
     ICMP |-> NilPtr, NotProtocol |-> NilPtr, NotICMP |-> NilPtr,
     Source |-> BaseEntity, Destination |-> BaseEntity]

Tags == {<< >>, <<"t", "1">>}

Selectors == {<< >>, <<"l", " ", "=", "=", " ", "'", "v", "'">>}

\* Rules that differ in their tags and selectors.
TagRules ==
    {[BaseRule EXCEPT !.Source.Tag = t[1], !.Source.NotTag = t[2],
                      !.Destination.Tag = t[3], !.Destination.NotTag = t[4],
                      !.Source.Selector = sel[1], !.Source.NotSelector = sel[2],
                      !.Destination.Selector = sel[3], !.Destination.NotSelector = sel[4]] :
        t \in Tags \X Tags \X Tags \X Tags,
        sel \in Selectors \X Selectors \X Selectors \X Selectors}

\* A network with host bits set, and a strictly masked one.
LooseNet == [ip |-> Pow2(IPBits) - 1, len |-> IPBits - 1]

TightNet == [ip |-> Pow2(IPBits - 1), len |-> 1]

RuleNetSlices ==
    {NilSlice, Slice(<< >>), Slice(<<Ptr(LooseNet)>>), Slice(<<Ptr(TightNet), Ptr(LooseNet)>>)}

LoosePtrs == {NilPtr, Ptr(LooseNet)}

\* Rules that differ in their networks: one side at a time with every
\* network, and the four deprecated fields together.
NetRules ==
    {[BaseRule EXCEPT !.Source.Net = n, !.Source.Nets = ns] :
        n \in NetPtrs, ns \in RuleNetSlices}
    \cup {[BaseRule EXCEPT !.Source.NotNet = n, !.Source.NotNets = ns] :
        n \in NetPtrs, ns \in RuleNetSlices}
    \cup {[BaseRule EXCEPT !.Destination.Net = n, !.Destination.Nets = ns] :
        n \in NetPtrs, ns \in RuleNetSlices}
    \cup {[BaseRule EXCEPT !.Destination.NotNet = n, !.Destination.NotNets = ns] :
        n \in NetPtrs, ns \in RuleNetSlices}
    \cup {[BaseRule EXCEPT !.Source.Net = q[1], !.Source.NotNet = q[2],
                           !.Destination.Net = q[3], !.Destination.NotNet = q[4]] :
        q \in LoosePtrs \X LoosePtrs \X LoosePtrs \X LoosePtrs}

IntPtrs == {NilPtr, Ptr(0), Ptr(8)}

ICMPPtrs == {NilPtr} \cup {Ptr([Code |-> c, Type |-> t]) : c \in IntPtrs, t \in IntPtrs}

ICMPRules ==
    {[BaseRule EXCEPT !.ICMP = a, !.NotICMP = b] : a \in ICMPPtrs, b \in ICMPPtrs}

RuleActions == {<< >>, Pass, ToLower(Pass), NextTier, ToLower(Deny), Log, <<"x">>}

PortSlices == {NilSlice, Slice(<<80>>)}

\* Rules that differ in the fields that are copied.
ScalarRules ==
    {[BaseRule EXCEPT !.Action = a, !.Protocol = pr, !.NotProtocol = np, !.IPVersion = v,
                      !.Source.Ports = po, !.Destination.NotPorts = po] :
        a \in RuleActions, pr \in {NilPtr, Ptr(Tcp), Ptr(ProtoNum)},
        np \in {NilPtr, Ptr(Udp)}, v \in {NilPtr, Ptr(6)}, po \in PortSlices}

LegacyRules == TagRules \cup NetRules \cup ICMPRules \cup ScalarRules

\* The backend rule that holds the fields of the legacy rule ar as they are
\* written: what an older writer stored.
StoredRule(ar) ==
    [Action |-> ar.Action, IPVersion |-> ar.IPVersion, Protocol |-> ar.Protocol,
     ICMPCode |-> IF ar.ICMP = NilPtr THEN NilPtr ELSE ar.ICMP[1].Code,
     ICMPType |-> IF ar.ICMP = NilPtr THEN NilPtr ELSE ar.ICMP[1].Type,
     NotProtocol |-> ar.NotProtocol,
     NotICMPCode |-> IF ar.NotICMP = NilPtr THEN NilPtr ELSE ar.NotICMP[1].Code,
     NotICMPType |-> IF ar.NotICMP = NilPtr THEN NilPtr ELSE ar.NotICMP[1].Type,
     SrcTag |-> ar.Source.Tag, SrcNet |-> ar.Source.Net, SrcNets |-> ar.Source.Nets,
     SrcSelector |-> ar.Source.Selector, SrcPorts |-> ar.Source.Ports,
     DstTag |-> ar.Destination.Tag, DstNet |-> ar.Destination.Net,
     DstNets |-> ar.Destination.Nets, DstSelector |-> ar.Destination.Selector,
     DstPorts |-> ar.Destination.Ports,
     NotSrcTag |-> ar.Source.NotTag, NotSrcNet |-> ar.Source.NotNet,
     NotSrcNets |-> ar.Source.NotNets, NotSrcSelector |-> ar.Source.NotSelector,
     NotSrcPorts |-> ar.Source.NotPorts,
     NotDstTag |-> ar.Destination.NotTag, NotDstNet |-> ar.Destination.NotNet,
     NotDstNets |-> ar.Destination.NotNets, NotDstSelector |-> ar.Destination.NotSelector,
     NotDstPorts |-> ar.Destination.NotPorts]

StoredRules == {StoredRule(ar) : ar \in LegacyRules}

MaKe == <<"M", "a", "K", "e", ".", "-", ".", "M", "a", "K", "e">>

NamyMcPolicyName ==
    <<"n", "a", "m", "y", "M", "c", "P", "o", "l", "i", "c", "y", "N", "a", "m", "e">>

PolicyNames ==
    {MaKe, <<"R", "A", "W", "R">>, <<"m", "e", "o", "w">>, NamyMcPolicyName,
     <<"A", "_", "_", "b">>, <<"a", "-", "-", "B", ".">>}

LegacyTypes ==
    LET in == ToLower(IngressType)
        eg == ToLower(EgressType)
    IN  {NilSlice, Slice(<<in>>), Slice(<<eg>>), Slice(<<in, eg>>), Slice(<<eg, in>>)}

BasePolicy ==
    [kind |-> "Policy", Name |-> <<"p">>, Order |-> Ptr(1000),
     IngressRules |-> NilSlice, EgressRules |-> NilSlice,
     Selector |-> <<"t", " ", "=", "=", " ", "'", "v", "'">>,
     DoNotTrack |-> FALSE, PreDNAT |-> FALSE, ApplyOnForward |-> FALSE,
     Types |-> Slice(<<ToLower(IngressType)>>)]

\* A second rule, to tell the order of a sequence.
OtherRule == [BaseRule EXCEPT !.Action = ToLower(Deny), !.Protocol = Ptr(Udp)]

RuleSeqShapes ==
    {NilSlice, Slice(<< >>), Slice(<<BaseRule>>), Slice(<<BaseRule, OtherRule>>),
     Slice(<<OtherRule, BaseRule>>)}

\* Legacy policies: one per rule, one per shape of the rule sequences and of
\* Types, one per name and combination of flags; and a resource that is no
\* policy.
LegacyResources ==
    {[BasePolicy EXCEPT !.IngressRules = Slice(<<r>>)] : r \in LegacyRules}
    \cup {[BasePolicy EXCEPT !.IngressRules = i, !.EgressRules = e, !.Types = ty] :
            i \in RuleSeqShapes, e \in RuleSeqShapes, ty \in LegacyTypes}
    \cup {[BasePolicy EXCEPT !.Name = n, !.DoNotTrack = f[1], !.PreDNAT = f[2],
                             !.ApplyOnForward = f[3], !.Order = o] :
            n \in PolicyNames, f \in BOOLEAN \X BOOLEAN \X BOOLEAN,
            o \in {NilPtr, Ptr(1000)}}
    \cup {[BasePolicy EXCEPT !.kind = "Profile"]}

\* The KeyValue that holds the fields of the legacy policy ap as written.
StoredKVP(ap, inbound, outbound) ==
    [Key   |-> [kind |-> "PolicyKey", Name |-> ap.Name],
     Value |-> [kind |-> "Policy", Order |-> ap.Order,
                InboundRules |-> inbound, OutboundRules |-> outbound,
                Selector |-> ap.Selector, DoNotTrack |-> ap.DoNotTrack,
                PreDNAT |-> ap.PreDNAT, ApplyOnForward |-> ap.ApplyOnForward,
                Types |-> ap.Types]]

StoredSeqShapes ==
    {NilSlice, Slice(<< >>), Slice(<<StoredRule(BaseRule)>>),
     Slice(<<StoredRule(BaseRule), StoredRule(OtherRule)>>),
     Slice(<<StoredRule(OtherRule), StoredRule(BaseRule)>>)}

\* Stored KeyValues: as the legacy policies, and two of the wrong type.
StoredKVPs ==
    {StoredKVP(BasePolicy, Slice(<<br>>), NilSlice) : br \in StoredRules}
    \cup {StoredKVP([BasePolicy EXCEPT !.Types = ty], i, e) :
            i \in StoredSeqShapes, e \in StoredSeqShapes, ty \in LegacyTypes}
    \cup {StoredKVP([BasePolicy EXCEPT !.Name = n, !.DoNotTrack = f[1], !.PreDNAT = f[2],
                                       !.ApplyOnForward = f[3], !.Order = o],
                    Slice(<<StoredRule(BaseRule)>>), Slice(<< >>)) :
            n \in PolicyNames, f \in BOOLEAN \X BOOLEAN \X BOOLEAN,
            o \in {NilPtr, Ptr(1000)}}
    \cup {[StoredKVP(BasePolicy, NilSlice, NilSlice) EXCEPT !.Value = [kind |-> "Profile"]],
          [StoredKVP(BasePolicy, NilSlice, NilSlice) EXCEPT !.Key.kind = "ProfileKey"]}

-----------------------------------------------------------------------------
(* One policy migrated by one goroutine *)

Init ==
    /\ QuietThreads /\ QuietPure /\ QuietOnce
    /\ pc = "start"
    /\ v3API = NoResult
    /\ \/ v1API \in {Ptr(ap) : ap \in LegacyResources} /\ v1KVP = NoResult
       \/ v1API = NilPtr /\ v1KVP \in {Stored(kvp) : kvp \in StoredKVPs}

\* Some rule of the policy makes ruleAPIToBackend call logDeprecationOnce.Do.
anyDeprecatedNet(ap) ==
    \/ \E i \in 1..Len(ap.IngressRules.elems) : hasDeprecatedNet(ap.IngressRules.elems[i])
    \/ \E i \in 1..Len(ap.EgressRules.elems) : hasDeprecatedNet(ap.EgressRules.elems[i])

\* Policy.APIV1ToBackendV1 on the legacy resource.
APIV1ToBackendV1 ==
    /\ pc = "start" /\ v1API # NilPtr
    /\ pc' = "converted"
    /\ IF v1API[1].kind # "Policy"
       THEN /\ v1KVP' = Err
            /\ UNCHANGED onceVars
       ELSE /\ v1KVP' = Ok(policyAPIToBackend(v1API[1]))
            /\ IF anyDeprecatedNet(v1API[1]) /\ onceDone = 0
               THEN /\ warnings' = warnings + 1
                    /\ onceDone' = 1
                    /\ UNCHANGED onceMu
               ELSE UNCHANGED onceVars
    /\ UNCHANGED <<v1API, v3API, threadVars, pureVars>>

\* Policy.BackendV1ToAPIV3 on the KeyValue just converted, or on a stored one.
BackendV1ToAPIV3 ==
    /\ \/ pc = "start" /\ v1KVP.status = "stored"
       \/ pc = "converted" /\ v1KVP.status = "ok"
    /\ pc' = "done"
    /\ LET kvp == v1KVP.val[1]
       IN  v3API' =
             IF typeMismatch(kvp) THEN Err
             ELSE IF \/ rulesV1BackendToV3APIPanics(kvp.Value.InboundRules)
                     \/ rulesV1BackendToV3APIPanics(kvp.Value.OutboundRules)
                  THEN Panic
             ELSE Ok(policyBackendToV3(kvp))
    /\ UNCHANGED <<v1API, v1KVP, threadVars, onceVars, pureVars>>

Next == APIV1ToBackendV1 \/ BackendV1ToAPIV3

Spec == Init /\ [][Next]_vars

-----------------------------------------------------------------------------
(* Properties of one migration *)

\* BackendV1ToAPIV3 has returned a policy.
Migrated == pc = "done" /\ v3API.status = "ok"

\* APIV1ToBackendV1 has returned a KeyValue.
Converted == pc \in {"converted", "done"} /\ v1KVP.status = "ok"

\* The backend policy that BackendV1ToAPIV3 was given, and the policy it returned.
BackendIn == v1KVP.val[1].Value

V3Out == v3API.val[1].Spec

\* C1: BackendV1ToAPIV3 returns ApplyOnForward = ApplyOnForward_in OR
\* (DoNotTrack AND PreDNAT), and copies DoNotTrack and PreDNAT.
C1_ApplyOnForwardInference ==
    Migrated =>
        /\ V3Out.ApplyOnForward =
              (BackendIn.ApplyOnForward \/ (BackendIn.DoNotTrack /\ BackendIn.PreDNAT))
        /\ V3Out.DoNotTrack = BackendIn.DoNotTrack
        /\ V3Out.PreDNAT = BackendIn.PreDNAT

\* (true, true, false) was migrated and came out with ApplyOnForward set.
C1_Witness ==
    /\ Migrated
    /\ BackendIn.DoNotTrack /\ BackendIn.PreDNAT /\ ~BackendIn.ApplyOnForward
    /\ V3Out.ApplyOnForward

C4_NilAndEmptyPerLeg ==
    /\ Converted =>
          /\ ~BackendIn.InboundRules.isNil /\ ~BackendIn.OutboundRules.isNil
          /\ Len(BackendIn.InboundRules.elems) = Len(v1API[1].IngressRules.elems)
          /\ Len(BackendIn.OutboundRules.elems) = Len(v1API[1].EgressRules.elems)
    /\ Migrated =>
          /\ V3Out.Ingress.isNil = BackendIn.InboundRules.isNil
          /\ V3Out.Egress.isNil = BackendIn.OutboundRules.isNil
          /\ Len(V3Out.Ingress.elems) = Len(BackendIn.InboundRules.elems)
          /\ Len(V3Out.Egress.elems) = Len(BackendIn.OutboundRules.elems)

\* A legacy policy with no ingress rules and an empty egress sequence went
\* through both legs: both are empty and non-nil in the end.
C4_Witness ==
    /\ Migrated /\ v1API # NilPtr
    /\ v1API[1].IngressRules.isNil
    /\ ~v1API[1].EgressRules.isNil /\ Len(v1API[1].EgressRules.elems) = 0
    /\ ~V3Out.Ingress.isNil /\ Len(V3Out.Ingress.elems) = 0
    /\ ~V3Out.Egress.isNil

\* The strings of the strictly masked networks.
StrictStrings == {NetString(n) : n \in StrictNets}

\* The network strings of a current-API rule.
NetStringsOf(r) ==
    Range(r.Source.Nets.elems) \cup Range(r.Source.NotNets.elems)
        \cup Range(r.Destination.Nets.elems) \cup Range(r.Destination.NotNets.elems)

\* C5: every network string of every rule that BackendV1ToAPIV3 returns is
\* strictly masked, also when the stored network is not.
C5_OutputNetsStrictlyMasked ==
    Migrated =>
        /\ \A i \in 1..Len(V3Out.Ingress.elems) :
              NetStringsOf(V3Out.Ingress.elems[i]) \subseteq StrictStrings
        /\ \A i \in 1..Len(V3Out.Egress.elems) :
              NetStringsOf(V3Out.Egress.elems[i]) \subseteq StrictStrings

\* The selector the current API gets for a selector and a tag.
MergedSelector(selector, tag) ==
    IF Len(tag) = 0 THEN selector
    ELSE <<"(">> \o selector \o <<")", " ", "&", "&", " ">> \o tag
            \o <<" ", "=", "=", " ", "'", "'">>

SelectorsMerged(br, ar) ==
    /\ ar.Source.Selector = MergedSelector(br.SrcSelector, br.SrcTag)
    /\ ar.Source.NotSelector = MergedSelector(br.NotSrcSelector, br.NotSrcTag)
    /\ ar.Destination.Selector = MergedSelector(br.DstSelector, br.DstTag)
    /\ ar.Destination.NotSelector = MergedSelector(br.NotDstSelector, br.NotDstTag)

\* C7: for source and destination, match and negated match, each on its
\* own: the output selector is the input selector when the tag is empty, and
\* "(" + selector + ") && " + tag + " == ''" otherwise.
C7_TagFoldedIntoSelector ==
    Migrated =>
        /\ \A i \in 1..Len(V3Out.Ingress.elems) :
              SelectorsMerged(BackendIn.InboundRules.elems[i], V3Out.Ingress.elems[i])
        /\ \A i \in 1..Len(V3Out.Egress.elems) :
              SelectorsMerged(BackendIn.OutboundRules.elems[i], V3Out.Egress.elems[i])

\* A rule with a source tag on an empty selector, a destination selector
\* with no tag, and a negated destination tag on a selector was migrated.
C7_Witness ==
    /\ Migrated
    /\ Len(V3Out.Ingress.elems) = 1
    /\ LET br == BackendIn.InboundRules.elems[1]
           ar == V3Out.Ingress.elems[1]
       IN  /\ br.SrcTag # << >> /\ br.SrcSelector = << >>
           /\ br.DstTag = << >> /\ br.DstSelector # << >>
           /\ br.NotDstTag # << >> /\ br.NotDstSelector # << >>
           /\ ar.Source.Selector =
                 <<"(", ")", " ", "&", "&", " ", "t", "1", " ", "=", "=", " ", "'", "'">>
           /\ ar.Destination.Selector = br.DstSelector

\* The ICMP structure of the current-API rule is present exactly when the
\* legacy one has a code or a type, and then carries them.
ICMPCarried(legacy, current) ==
    IF legacy # NilPtr /\ (legacy[1].Code # NilPtr \/ legacy[1].Type # NilPtr)
    THEN /\ current # NilPtr
         /\ current[1].Code = legacy[1].Code
         /\ current[1].Type = legacy[1].Type
    ELSE current = NilPtr

\* C8: for ICMP and NotICMP, each on its own: a legacy rule taken through
\* both legs has the ICMP structure exactly when a code or a type was set,
\* with those values; a legacy structure with neither yields none.
C8_ICMPPresence ==
    (Migrated /\ v1API # NilPtr) =>
        /\ \A i \in 1..Len(V3Out.Ingress.elems) :
              /\ ICMPCarried(v1API[1].IngressRules.elems[i].ICMP, V3Out.Ingress.elems[i].ICMP)
              /\ ICMPCarried(v1API[1].IngressRules.elems[i].NotICMP,
                             V3Out.Ingress.elems[i].NotICMP)
        /\ \A i \in 1..Len(V3Out.Egress.elems) :
              /\ ICMPCarried(v1API[1].EgressRules.elems[i].ICMP, V3Out.Egress.elems[i].ICMP)
              /\ ICMPCarried(v1API[1].EgressRules.elems[i].NotICMP,
                             V3Out.Egress.elems[i].NotICMP)

\* A legacy rule whose ICMP has neither code nor type, and whose NotICMP has
\* a type alone, went through both legs.
C8_Witness ==
    /\ Migrated /\ v1API # NilPtr
    /\ Len(V3Out.Ingress.elems) = 1
    /\ LET legacy == v1API[1].IngressRules.elems[1]
           current == V3Out.Ingress.elems[1]
       IN  /\ legacy.ICMP = Ptr([Code |-> NilPtr, Type |-> NilPtr])
           /\ current.ICMP = NilPtr
           /\ legacy.NotICMP = Ptr([Code |-> NilPtr, Type |-> Ptr(8)])
           /\ current.NotICMP = Ptr([Code |-> NilPtr, Type |-> Ptr(8)])

\* The letters and digits of a name, in order.
RECURSIVE Alnums(_)
Alnums(s) ==
    IF Len(s) = 0 THEN << >>
    ELSE (IF IsAlnum(Head(s)) THEN <<Head(s)>> ELSE << >>) \o Alnums(Tail(s))

\* A current-API name of the key name k: lower case, the letters and digits
\* of k in order, and no special character next to another one unless both
\* are hyphens.
IsCurrentNameOf(n, k) ==
    /\ \A i \in 1..Len(n) : n[i] = ToLowerChar(n[i])
    /\ Alnums(n) = Alnums(ToLower(k))
    /\ \A i \in 1..(Len(n) - 1) :
          (~IsAlnum(n[i]) /\ ~IsAlnum(n[i + 1])) => (n[i] = "-" /\ n[i + 1] = "-")
    /\ \A i \in 1..Len(n) : ~IsAlnum(n[i]) => n[i] \in {".", "-"}

\* C11: APIV1ToBackendV1 returns a key whose name is the legacy name,
\* character for character; BackendV1ToAPIV3 returns an object whose name is
\* the normalized key name: lower case, each run of special characters
\* collapsed to one separator ("MaKe.-.MaKe" gives "make.make",
\* "namyMcPolicyName" gives "namymcpolicyname").
C11_NamingOnSecondLegOnly ==
    /\ Converted => v1KVP.val[1].Key.Name = v1API[1].Name
    /\ Migrated =>
          LET k == v1KVP.val[1].Key.Name
              n == v3API.val[1].Name
          IN  /\ IsCurrentNameOf(n, k)
              /\ k = MaKe => n = <<"m", "a", "k", "e", ".", "m", "a", "k", "e">>
              /\ k = NamyMcPolicyName => n = ToLower(NamyMcPolicyName)

\* The legacy policy "MaKe.-.MaKe" went through both legs: the key kept the
\* name, the current-API object is "make.make".
C11_Witness ==
    /\ Migrated /\ v1API # NilPtr
    /\ v1API[1].Name = MaKe
    /\ v1KVP.val[1].Key.Name = MaKe
    /\ v3API.val[1].Name = <<"m", "a", "k", "e", ".", "m", "a", "k", "e">>

\* C12: APIV1ToBackendV1 infers no forwarding flag: DoNotTrack, PreDNAT and
\* ApplyOnForward of the backend value are those of the legacy policy.
C12_FlagsCopiedOnFirstLeg ==
    Converted =>
        /\ BackendIn.DoNotTrack = v1API[1].DoNotTrack
        /\ BackendIn.PreDNAT = v1API[1].PreDNAT
        /\ BackendIn.ApplyOnForward = v1API[1].ApplyOnForward

\* (DoNotTrack, PreDNAT, ApplyOnForward) = (true, true, false) was converted
\* and ApplyOnForward is still false in the backend.
C12_Witness ==
    /\ pc = "converted" /\ v1KVP.status = "ok"
    /\ v1API[1].DoNotTrack /\ v1API[1].PreDNAT /\ ~v1API[1].ApplyOnForward
    /\ ~BackendIn.ApplyOnForward

\* C13: for every legacy policy, APIV1ToBackendV1 and then BackendV1ToAPIV3
\* on its result each return a converted object or an error value and never
\* abort, also when a rule has no Protocol; and a KeyValue whose Value is no
\* backend policy yields an error value and no object.
C13_EntryPointsTotal ==
    /\ (pc \in {"converted", "done"} /\ v1API # NilPtr) =>
          v1KVP.status \in {"ok", "error"}
    /\ (pc = "done" /\ v1API # NilPtr) => v3API.status \in {"ok", "error"}
    /\ (pc = "done" /\ v1KVP.val[1].Value.kind # "Policy") =>
          (v3API.status = "error" /\ v3API.val = NilPtr)

\* ys holds the strictly masked forms of the networks of xs, one for one.
AllNormalOf(ys, xs) ==
    /\ ys.isNil = xs.isNil
    /\ Len(ys.elems) = Len(xs.elems)
    /\ \A i \in 1..Len(ys.elems) : IsNormalOf(ys.elems[i], xs.elems[i])

\* The networks of the backend rule br against those of the legacy rule ar.
OnlyDestinationNormalized(ar, br) ==
    /\ IsNormalOf(br.DstNet, ar.Destination.Net)
    /\ AllNormalOf(br.DstNets, ar.Destination.Nets)
    /\ IsNormalOf(br.NotDstNet, ar.Destination.NotNet)
    /\ AllNormalOf(br.NotDstNets, ar.Destination.NotNets)
    /\ br.SrcNet = ar.Source.Net
    /\ br.SrcNets = ar.Source.Nets
    /\ br.NotSrcNet = ar.Source.NotNet
    /\ br.NotSrcNets = ar.Source.NotNets

\* C16: the legacy-to-backend rule conversion normalizes the destination
\* networks only: DstNet, DstNets, NotDstNet, NotDstNets are strictly masked,
\* SrcNet, SrcNets, NotSrcNet, NotSrcNets are the legacy fields, host bits
\* included.
C16_OnlyDestinationNormalized ==
    Converted =>
        /\ \A i \in 1..Len(v1API[1].IngressRules.elems) :
              OnlyDestinationNormalized(v1API[1].IngressRules.elems[i],
                                        BackendIn.InboundRules.elems[i])
        /\ \A i \in 1..Len(v1API[1].EgressRules.elems) :
              OnlyDestinationNormalized(v1API[1].EgressRules.elems[i],
                                        BackendIn.OutboundRules.elems[i])

\* A legacy rule with the same loosely masked network as source and as
\* destination was converted: the source kept its host bits, the destination
\* lost them.
C16_Witness ==
    /\ pc = "converted" /\ v1KVP.status = "ok"
    /\ Len(v1API[1].IngressRules.elems) = 1
    /\ v1API[1].IngressRules.elems[1].Source.Net = Ptr(LooseNet)
    /\ v1API[1].IngressRules.elems[1].Destination.Net = Ptr(LooseNet)
    /\ HostBits(BackendIn.InboundRules.elems[1].SrcNet[1]) # 0
    /\ HostBits(BackendIn.InboundRules.elems[1].DstNet[1]) = 0

\* The non-nil sequence out is the sequence in converted by f, rule for rule.
ConvertedInOrder(out, in, f(_)) ==
    ~in.isNil =>
        /\ ~out.isNil
        /\ Len(out.elems) = Len(in.elems)
        /\ \A i \in 1..Len(in.elems) : out.elems[i] = f(in.elems[i])

\* C15: both legs keep the length and the order of a non-nil rule sequence,
\* the i-th output rule being the conversion of the i-th input rule, ingress
\* from ingress and egress from egress; Types is mapped element by element, to
\* the lowercase tokens on the first leg and to the enum values on the second.
C15_OrderKept ==
    /\ Converted =>
          /\ ConvertedInOrder(BackendIn.InboundRules, v1API[1].IngressRules, ruleAPIToBackend)
          /\ ConvertedInOrder(BackendIn.OutboundRules, v1API[1].EgressRules, ruleAPIToBackend)
          /\ Len(BackendIn.Types.elems) = Len(v1API[1].Types.elems)
          /\ \A i \in 1..Len(v1API[1].Types.elems) :
                /\ BackendIn.Types.elems[i] \in {ToLower(IngressType), ToLower(EgressType)}
                /\ BackendIn.Types.elems[i] = ToLower(v1API[1].Types.elems[i])
    /\ Migrated =>
          /\ ConvertedInOrder(V3Out.Ingress, BackendIn.InboundRules, ruleBackendToAPI)
          /\ ConvertedInOrder(V3Out.Egress, BackendIn.OutboundRules, ruleBackendToAPI)
          /\ Len(V3Out.Types.elems) = Len(BackendIn.Types.elems)
          /\ \A i \in 1..Len(BackendIn.Types.elems) :
                /\ V3Out.Types.elems[i] \in {IngressType, EgressType}
                /\ ToLower(V3Out.Types.elems[i]) = ToLower(BackendIn.Types.elems[i])

\* A legacy policy with two different ingress rules, the egress rules in the
\* opposite order and Types (egress, ingress) went through both legs.
C15_Witness ==
    /\ Migrated /\ v1API # NilPtr
    /\ v1API[1].IngressRules = Slice(<<BaseRule, OtherRule>>)
    /\ v1API[1].EgressRules = Slice(<<OtherRule, BaseRule>>)
    /\ v1API[1].Types = Slice(<<ToLower(EgressType), ToLower(IngressType)>>)
    /\ V3Out.Ingress.elems[1] # V3Out.Ingress.elems[2]
    /\ V3Out.Ingress.elems[1] = V3Out.Egress.elems[2]
    /\ V3Out.Types = Slice(<<EgressType, IngressType>>)

-----------------------------------------------------------------------------
(* Goroutines calling ruleAPIToBackend, and sync.Once *)

\* Goroutines that convert rules at the same time.
NumThreads == 2

\* Calls of ruleAPIToBackend in one run, over all goroutines.
MaxCalls == 3

Threads == 1..NumThreads

\* Rules with and without deprecated fields.
DeprecationRules ==
    {BaseRule,
     [BaseRule EXCEPT !.Source.Net = Ptr(LooseNet)],
     [BaseRule EXCEPT !.Destination.NotNet = Ptr(TightNet)],
     [BaseRule EXCEPT !.Source.Tag = <<"t", "1">>]}

InitOnce ==
    /\ QuietPolicy /\ QuietPure /\ QuietOnce
    /\ tpc = [t \in Threads |-> "idle"]
    /\ targ = [t \in Threads |-> NilPtr]
    /\ tret = [t \in Threads |-> NilPtr]
    /\ ncalls = 0

\* A goroutine calls ruleAPIToBackend(ar).
Enter(t) ==
    /\ tpc[t] \in {"idle", "returned"}
    /\ ncalls < MaxCalls
    /\ \E ar \in DeprecationRules : targ' = [targ EXCEPT ![t] = Ptr(ar)]
    /\ tret' = [tret EXCEPT ![t] = NilPtr]
    /\ tpc' = [tpc EXCEPT ![t] = "check"]
    /\ ncalls' = ncalls + 1
    /\ UNCHANGED <<policyVars, onceVars, pureVars>>

\* if ar.Source.Net != nil || ... { logDeprecationOnce.Do(...) }
CheckDeprecated(t) ==
    /\ tpc[t] = "check"
    /\ tpc' = [tpc EXCEPT ![t] = IF hasDeprecatedNet(targ[t][1]) THEN "load" ELSE "build"]
    /\ UNCHANGED <<targ, tret, ncalls, policyVars, onceVars, pureVars>>

OnceLoad_unlocked(t) ==
    /\ tpc[t] = "load"
    /\ tpc' = [tpc EXCEPT ![t] = IF onceDone = 1 THEN "build" ELSE "f"]
    /\ UNCHANGED <<targ, tret, ncalls, policyVars, onceVars, pureVars>>

\* Once.Do, fast path: if atomic.LoadUint32(&o.done) == 1 { return }
OnceLoad(t) ==
    /\ tpc[t] = "load"
    /\ tpc' = [tpc EXCEPT ![t] = IF onceDone = 1 THEN "build" ELSE "lock"]
    /\ UNCHANGED <<targ, tret, ncalls, policyVars, onceVars, pureVars>>

\* Once.Do, slow path: o.m.Lock()
OnceLock(t) ==
    /\ tpc[t] = "lock"
    /\ onceMu = 0
    /\ onceMu' = t
    /\ tpc' = [tpc EXCEPT ![t] = "recheck"]
    /\ UNCHANGED <<targ, tret, ncalls, onceDone, warnings, policyVars, pureVars>>

\* if o.done == 0 { ... }
OnceRecheck(t) ==
    /\ tpc[t] = "recheck"
    /\ tpc' = [tpc EXCEPT ![t] = IF onceDone = 0 THEN "f" ELSE "unlock"]
    /\ UNCHANGED <<targ, tret, ncalls, policyVars, onceVars, pureVars>>

\* f(): log.Warning(...)
LogWarning(t) ==
    /\ tpc[t] = "f"
    /\ warnings' = warnings + 1
    /\ tpc' = [tpc EXCEPT ![t] = "store"]
    /\ UNCHANGED <<targ, tret, ncalls, onceDone, onceMu, policyVars, pureVars>>

\* defer atomic.StoreUint32(&o.done, 1)
OnceStore(t) ==
    /\ tpc[t] = "store"
    /\ onceDone' = 1
    /\ tpc' = [tpc EXCEPT ![t] = "unlock"]
    /\ UNCHANGED <<targ, tret, ncalls, onceMu, warnings, policyVars, pureVars>>

\* defer o.m.Unlock()
OnceUnlock(t) ==
    /\ tpc[t] = "unlock"
    /\ onceMu' = IF onceMu = t THEN 0 ELSE onceMu
    /\ tpc' = [tpc EXCEPT ![t] = "build"]
    /\ UNCHANGED <<targ, tret, ncalls, onceDone, warnings, policyVars, pureVars>>

\* return model.Rule{...}
Return(t) ==
    /\ tpc[t] = "build"
    /\ tret' = [tret EXCEPT ![t] = Ptr(ruleAPIToBackend(targ[t][1]))]
    /\ tpc' = [tpc EXCEPT ![t] = "returned"]
    /\ UNCHANGED <<targ, ncalls, policyVars, onceVars, pureVars>>

NextOnce ==
    \E t \in Threads :
        \/ Enter(t)
        \/ CheckDeprecated(t)
        \/ OnceLoad(t)
        \/ OnceLock(t)
        \/ OnceRecheck(t)
        \/ LogWarning(t)
        \/ OnceStore(t)
        \/ OnceUnlock(t)
        \/ Return(t)

SpecOnce == InitOnce /\ [][NextOnce]_vars

\* The call of goroutine t has returned and its rule carries a deprecated
\* Net or NotNet.
ReturnedDeprecated(t) ==
    tpc[t] = "returned" /\ hasDeprecatedNet(targ[t][1])

\* C3: under any interleaving the warning is logged at most once, and when a
\* call that carries a deprecated Net or NotNet has returned it has been
\* logged exactly once.
C3_WarningOnce ==
    /\ warnings <= 1
    /\ \A t \in Threads : ReturnedDeprecated(t) => warnings = 1

\* A first-use race: one goroutine has logged the warning and returned while
\* another, which found the gate open on the fast path, waits for the lock.
C3_Witness ==
    /\ warnings = 1
    /\ \E t \in Threads : ReturnedDeprecated(t)
    /\ \E t \in Threads : tpc[t] = "lock"

\* The deprecated singular networks and the deprecated tags of a legacy rule.
DeprecatedNetFields(ar) ==
    {ar.Source.Net, ar.Source.NotNet, ar.Destination.Net, ar.Destination.NotNet}

DeprecatedTagFields(ar) ==
    {ar.Source.Tag, ar.Source.NotTag, ar.Destination.Tag, ar.Destination.NotTag}

CarriesNet(ar) == DeprecatedNetFields(ar) # {NilPtr}

CarriesTag(ar) == DeprecatedTagFields(ar) # {<< >>}

\* C17 as stated: once the conversion of a rule that carries a deprecated Net,
\* NotNet, Tag or NotTag has returned, the warning has been logged, a Tag alone
\* being enough; and it is never logged twice.
C17_WarningForAnyDeprecatedField ==
    /\ warnings <= 1
    /\ \A t \in Threads :
          (tpc[t] = "returned" /\ (CarriesNet(targ[t][1]) \/ CarriesTag(targ[t][1])))
              => warnings = 1

\* C17: over a whole run the warning is logged by the first conversion of a
\* rule that carries a deprecated Net or NotNet: every step that logs it is
\* the first to do so and belongs to the conversion of such a rule, so a rule
\* whose only deprecated field is a Tag or NotTag, or that has none, never
\* logs it; and once such a conversion has returned the warning is logged.
C17_WarningForDeprecatedNetOnly ==
    /\ [](\A t \in Threads :
            (tpc[t] = "returned" /\ CarriesNet(targ[t][1])) => warnings = 1)
    /\ [][warnings' # warnings =>
            /\ warnings = 0 /\ warnings' = 1
            /\ \E t \in Threads :
                  /\ tpc[t] = "f" /\ tpc'[t] = "store"
                  /\ CarriesNet(targ[t][1])]_vars

\* Two conversions so far: the one of a rule whose only deprecated field is a
\* Tag has returned, and the one of a rule with a deprecated Net has just
\* logged the warning.
C17_Witness ==
    /\ ncalls = 2 /\ warnings = 1
    /\ \E t \in Threads :
          /\ tpc[t] = "returned"
          /\ CarriesTag(targ[t][1]) /\ ~CarriesNet(targ[t][1])
    /\ \E t \in Threads : tpc[t] = "store" /\ CarriesNet(targ[t][1])

-----------------------------------------------------------------------------
(* The networks of a rule as pointers into memory *)

\* Memory: the net.IPNet values that pointers refer to (cells, address 0 is
\* nil) and the backing arrays of []*net.IPNet slices (arrays, a slice being
\* the index of its array, 0 the nil slice).
MaxCells == 2

WithMem(mem, val) == [mem |-> mem, val |-> val]

\* (*net.IPNet).Network(): a pointer to a new IPNet, the receiver masked.
NetworkMem(mem, n) ==
    WithMem([mem EXCEPT !.cells = Append(@, Network(mem.cells[n]))],
            Len(mem.cells) + 1)

normalizeIPNetMem(mem, n) ==
    IF n = 0 THEN WithMem(mem, 0) ELSE NetworkMem(mem, n)

\* for i, n := range nets { out[i] = normalizeIPNet(n) }, from index i on.
RECURSIVE normalizeRange(_, _, _, _)
normalizeRange(mem, nets, out, i) ==
    IF i > Len(mem.arrays[nets]) THEN mem
    ELSE LET r == normalizeIPNetMem(mem, mem.arrays[nets][i])
         IN  normalizeRange([r.mem EXCEPT !.arrays[out][i] = r.val], nets, out, i + 1)

\* make([]*net.IPNet, n): n nil pointers.
RECURSIVE make(_)
make(n) == IF n = 0 THEN << >> ELSE Append(make(n - 1), 0)

normalizeIPNetsMem_inPlace(mem, nets) ==
    IF nets = 0 THEN WithMem(mem, 0)
    ELSE WithMem(normalizeRange(mem, nets, nets, 1), nets)

\* out := make([]*net.IPNet, len(nets)), filled by the loop and returned.
normalizeIPNetsMem(mem, nets) ==
    IF nets = 0 THEN WithMem(mem, 0)
    ELSE LET out  == Len(mem.arrays) + 1
             made == [mem EXCEPT !.arrays = Append(@, make(Len(mem.arrays[nets])))]
         IN  WithMem(normalizeRange(made, nets, out, 1), out)

\* The network fields of the model.Rule literal of ruleAPIToBackend, in the
\* order the literal evaluates them.
ruleAPIToBackendMem(mem, ar) ==
    LET dn  == normalizeIPNetMem(mem, ar.Destination.Net)
        dns == normalizeIPNetsMem(dn.mem, ar.Destination.Nets)
        nn  == normalizeIPNetMem(dns.mem, ar.Destination.NotNet)
        nns == normalizeIPNetsMem(nn.mem, ar.Destination.NotNets)
    IN  WithMem(nns.mem,
                [SrcNet     |-> ar.Source.Net,
                 SrcNets    |-> ar.Source.Nets,
                 DstNet     |-> dn.val,
                 DstNets    |-> dns.val,
                 NotSrcNet  |-> ar.Source.NotNet,
                 NotSrcNets |-> ar.Source.NotNets,
                 NotDstNet  |-> nn.val,
                 NotDstNets |-> nns.val])

\* combineNets of model.Rule: nets itself, or a new array that ends with n.
combineNetsMem(mem, n, nets) ==
    IF n = 0 THEN WithMem(mem, nets)
    ELSE IF nets = 0 \/ Len(mem.arrays[nets]) = 0
    THEN WithMem([mem EXCEPT !.arrays = Append(@, <<n>>)], Len(mem.arrays) + 1)
    ELSE WithMem([mem EXCEPT !.arrays = Append(@, Append(mem.arrays[nets], n))],
                 Len(mem.arrays) + 1)

\* for _, net := range nets { strs = append(strs, net.String()) }
netsToStringsMem(mem, nets) ==
    IF nets = 0 \/ Len(mem.arrays[nets]) = 0 THEN NilSlice
    ELSE Slice([i \in 1..Len(mem.arrays[nets]) |->
                  NetString(mem.cells[mem.arrays[nets][i]])])

\* The network strings of the apiv3.Rule of ruleBackendToAPI.
ruleBackendToAPIMem(mem, br) ==
    LET src    == combineNetsMem(mem, br.SrcNet, br.SrcNets)
        dst    == combineNetsMem(src.mem, br.DstNet, br.DstNets)
        notSrc == combineNetsMem(dst.mem, br.NotSrcNet, br.NotSrcNets)
        notDst == combineNetsMem(notSrc.mem, br.NotDstNet, br.NotDstNets)
    IN  WithMem(notDst.mem,
                [Source      |-> [Nets    |-> netsToStringsMem(notDst.mem, src.val),
                                  NotNets |-> netsToStringsMem(notDst.mem, notSrc.val)],
                 Destination |-> [Nets    |-> netsToStringsMem(notDst.mem, dst.val),
                                  NotNets |-> netsToStringsMem(notDst.mem, notDst.val)]])

\* Memories tried: up to MaxCells networks, loosely and strictly masked, and
\* one array of up to MaxNets pointers, each to a cell or nil when nils is set.
Memories(nils) ==
    {[cells |-> cs, arrays |-> <<a>>] :
        cs \in SeqsUpTo({LooseNet, TightNet}, MaxCells) \ {<< >>},
        a \in SeqsUpTo((IF nils THEN 0 ELSE 1)..MaxCells, MaxNets)}

\* Every pointer of the memory refers to a cell of it.
WellFormed(mem) ==
    \A i \in 1..Len(mem.arrays) : \A j \in 1..Len(mem.arrays[i]) :
        mem.arrays[i][j] <= Len(mem.cells)

\* The network fields of legacy rules over a memory: pointers and slices that
\* may refer to the same cell and the same array.
RuleNetsOver(mem) ==
    {[Source      |-> [Net |-> sn, Nets |-> sns, NotNet |-> 0, NotNets |-> 0],
      Destination |-> [Net |-> dn, Nets |-> dns, NotNet |-> nn, NotNets |-> 0]] :
        sn \in 0..Len(mem.cells), sns \in 0..1,
        dn \in 0..Len(mem.cells), dns \in 0..1, nn \in 0..1}

InitMem ==
    /\ QuietPolicy /\ QuietThreads /\ QuietOnce
    /\ ret = NilPtr /\ prevRet = NilPtr /\ depth = 0
    /\ \/ /\ fn = "normalizeIPNet"
          /\ \E mem \in Memories(TRUE) :
                /\ WellFormed(mem)
                /\ \E n \in 0..Len(mem.cells) : arg = WithMem(mem, n)
       \/ /\ fn = "normalizeIPNets"
          /\ \E mem \in Memories(TRUE) :
                /\ WellFormed(mem)
                /\ \E nets \in 0..1 : arg = WithMem(mem, nets)
       \/ /\ fn = "ruleAPIToBackend"
          /\ \E mem \in Memories(FALSE) :
                /\ WellFormed(mem)
                /\ \E ar \in RuleNetsOver(mem) : arg = WithMem(mem, ar)

CallNormalizeIPNetMem ==
    /\ fn = "normalizeIPNet" /\ depth = 0
    /\ ret' = normalizeIPNetMem(arg.mem, arg.val)
    /\ depth' = 1
    /\ UNCHANGED <<fn, arg, prevRet, policyVars, threadVars, onceVars>>

CallNormalizeIPNetsMem ==
    /\ fn = "normalizeIPNets" /\ depth = 0
    /\ ret' = normalizeIPNetsMem(arg.mem, arg.val)
    /\ depth' = 1
    /\ UNCHANGED <<fn, arg, prevRet, policyVars, threadVars, onceVars>>

CallRuleAPIToBackendMem ==
    /\ fn = "ruleAPIToBackend" /\ depth = 0
    /\ ret' = ruleAPIToBackendMem(arg.mem, arg.val)
    /\ depth' = 1
    /\ UNCHANGED <<fn, arg, prevRet, policyVars, threadVars, onceVars>>

\* The backend rule that the first leg returned goes through the second leg.
CallRuleBackendToAPIMem ==
    /\ fn = "ruleAPIToBackend" /\ depth = 1
    /\ ret' = ruleBackendToAPIMem(ret.mem, ret.val)
    /\ prevRet' = ret
    /\ depth' = 2
    /\ UNCHANGED <<fn, arg, policyVars, threadVars, onceVars>>

NextMem ==
    \/ CallNormalizeIPNetMem
    \/ CallNormalizeIPNetsMem
    \/ CallRuleAPIToBackendMem
    \/ CallRuleBackendToAPIMem

SpecMem == InitMem /\ [][NextMem]_vars

\* The memory the latest call was given.
MemBefore == IF depth = 1 THEN arg.mem ELSE prevRet.mem

\* Every cell and every array of before is in after, with the value it had.
Kept(before, after) ==
    /\ Len(after.cells) >= Len(before.cells)
    /\ \A a \in 1..Len(before.cells) : after.cells[a] = before.cells[a]
    /\ Len(after.arrays) >= Len(before.arrays)
    /\ \A i \in 1..Len(before.arrays) : after.arrays[i] = before.arrays[i]

\* The pointer n is nil or refers to a strictly masked cell made by the call.
FreshNet(before, after, n) ==
    n # 0 => (n > Len(before.cells) /\ HostBits(after.cells[n]) = 0)

\* The slice nets is nil or an array made by the call, of such pointers.
FreshNets(before, after, nets) ==
    nets # 0 =>
        /\ nets > Len(before.arrays)
        /\ \A j \in 1..Len(after.arrays[nets]) :
              FreshNet(before, after, after.arrays[nets][j])

\* C14: a conversion never mutates its input: after a call of normalizeIPNet,
\* normalizeIPNets, ruleAPIToBackend or ruleBackendToAPI every network and
\* every slice that existed before the call has the value it had, the source
\* fields of the backend rule are the pointers of the legacy rule, and the
\* normalized networks and slices are new values.
C14_InputNotMutated ==
    depth >= 1 =>
        /\ Kept(MemBefore, ret.mem)
        /\ (fn = "normalizeIPNet") =>
              /\ FreshNet(arg.mem, ret.mem, ret.val)
              /\ (ret.val = 0) = (arg.val = 0)
        /\ (fn = "normalizeIPNets") =>
              /\ FreshNets(arg.mem, ret.mem, ret.val)
              /\ (ret.val = 0) = (arg.val = 0)
        /\ (fn = "ruleAPIToBackend" /\ depth = 1) =>
              /\ FreshNet(arg.mem, ret.mem, ret.val.DstNet)
              /\ FreshNets(arg.mem, ret.mem, ret.val.DstNets)
              /\ FreshNet(arg.mem, ret.mem, ret.val.NotDstNet)
              /\ FreshNets(arg.mem, ret.mem, ret.val.NotDstNets)
              /\ ret.val.SrcNet = arg.val.Source.Net
              /\ ret.val.SrcNets = arg.val.Source.Nets

\* A legacy rule whose source network, destination network and destination
\* slice all refer to one loosely masked network went through both legs: the
\* network still has its host bits, the source string shows them, the
\* destination strings do not.
C14_Witness ==
    /\ fn = "ruleAPIToBackend" /\ depth = 2
    /\ arg.val.Source.Net # 0
    /\ arg.val.Destination.Net = arg.val.Source.Net
    /\ arg.val.Destination.Nets = 1
    /\ arg.mem.arrays[1] = <<arg.val.Source.Net>>
    /\ HostBits(arg.mem.cells[arg.val.Source.Net]) # 0
    /\ ret.mem.cells[arg.val.Source.Net] = arg.mem.cells[arg.val.Source.Net]
    /\ ret.val.Source.Nets = Slice(<<NetString(LooseNet)>>)
    /\ ret.val.Destination.Nets =
          Slice(<<NetString(Network(LooseNet)), NetString(Network(LooseNet))>>)

-----------------------------------------------------------------------------
(* IPPoolConverter.ToKVPair *)

IsNumber(s) == Len(s) > 0 /\ \A i \in 1..Len(s) : s[i] \in Range(DigitChars)

DigitValue(ch) == CHOOSE n \in 0..9 : DigitChars[n + 1] = ch

RECURSIVE ParseNat(_)
ParseNat(s) ==
    IF Len(s) = 1 THEN DigitValue(s[1])
    ELSE 10 * ParseNat(SubSeq(s, 1, Len(s) - 1)) + DigitValue(s[Len(s)])

\* The k8s resource name format, address and prefix length joined by hyphens,
\* back to a CIDR; an error for a name that is not of that format.
ResourceNameToIPNet(name) ==
    LET dashes == {i \in 1..Len(name) : name[i] = "-"}
    IN  IF Cardinality(dashes) # 1 THEN Err
        ELSE LET d    == CHOOSE j \in dashes : TRUE
                 addr == SubSeq(name, 1, d - 1)
                 bits == SubSeq(name, d + 1, Len(name))
             IN  IF ~IsNumber(addr) \/ ~IsNumber(bits) THEN Err
                 ELSE IF ParseNat(addr) >= Pow2(IPBits) \/ ParseNat(bits) > IPBits THEN Err
                 ELSE Ok([ip |-> ParseNat(addr), len |-> ParseNat(bits)])

Tunl0 == <<"t", "u", "n", "l", "0">>

\* ipipInterface of ToKVPair.
ipipInterface(t) ==
    IF t.Spec.IPIP # NilPtr
    THEN (IF t.Spec.IPIP[1].Enabled THEN Tunl0 ELSE << >>)
    ELSE << >>

\* ToKVPair: the name parsed, ipipInterface set, then the KVPair built, which
\* reads t.Spec.IPIP.Mode through the pointer.
ToKVPair(t) ==
    LET cidr == ResourceNameToIPNet(t.Metadata.Name)
    IN  IF cidr.status = "error" THEN Err
        ELSE IF t.Spec.IPIP = NilPtr THEN Panic
        ELSE Ok([Key      |-> [kind |-> "IPPoolKey", CIDR |-> cidr.val[1]],
                 Value    |-> [kind          |-> "IPPool",
                               CIDR          |-> cidr.val[1],
                               IPIPInterface |-> ipipInterface(t),
                               IPIPMode      |-> t.Spec.IPIP[1].Mode,
                               Masquerade    |-> t.Spec.NATOutgoing,
                               IPAM          |-> ~t.Spec.Disabled,
                               Disabled      |-> t.Spec.Disabled],
                 Revision |-> t.Metadata.ResourceVersion])

\* Resource names: of the format, and not.
PoolNames ==
    {<<"6", "-", "2">>, <<"4", "-", "1">>, <<"0", "-", "0">>,
     <<"6", "2">>, <<"9", "-", "2">>, <<"x", "-", "2">>}

IPIPModes == {<< >>, <<"a", "l", "w", "a", "y", "s">>, <<"c", "r", "o", "s", "s">>}

\* Spec.IPIP: absent, or a configuration.
IPIPConfigs ==
    {NilPtr} \cup {Ptr([Enabled |-> e, Mode |-> m]) : e \in BOOLEAN, m \in IPIPModes}

IPPoolResources ==
    {[Metadata |-> [Name |-> n, ResourceVersion |-> <<"7">>],
      Spec     |-> [IPIP |-> ipip, NATOutgoing |-> nat, Disabled |-> dis]] :
        n \in PoolNames, ipip \in IPIPConfigs, nat \in BOOLEAN, dis \in BOOLEAN}

InitIPPool ==
    /\ QuietPolicy /\ QuietThreads /\ QuietOnce
    /\ fn = "ToKVPair"
    /\ arg \in IPPoolResources
    /\ ret = NoResult /\ prevRet = NilPtr /\ depth = 0

CallToKVPair ==
    /\ fn = "ToKVPair" /\ depth = 0
    /\ ret' = ToKVPair(arg)
    /\ depth' = 1
    /\ UNCHANGED <<fn, arg, prevRet, policyVars, threadVars, onceVars>>

NextIPPool == CallToKVPair

SpecIPPool == InitIPPool /\ [][NextIPPool]_vars

\* C18: ToKVPair returns a KVPair for every IP-pool resource with a parseable
\* name, absent IPIP configuration included; its IPIPInterface is "tunl0"
\* exactly when IPIP is present and enabled and "" otherwise, and its IPAM is
\* the negation of Disabled.
C18_ToKVPairAcceptsAbsentIPIP ==
    (fn = "ToKVPair" /\ depth = 1 /\ ResourceNameToIPNet(arg.Metadata.Name).status = "ok") =>
        /\ ret.status = "ok"
        /\ ret.val[1].Value.IPIPInterface =
              (IF arg.Spec.IPIP # NilPtr /\ arg.Spec.IPIP[1].Enabled THEN Tunl0 ELSE << >>)
        /\ ret.val[1].Value.IPAM = ~arg.Spec.Disabled

=============================================================================
